---- MODULE Spec2Model ----
(***************************************************************************)
(* Workspace bootstrap, team invitations and invitation acceptance of      *)
(* team-nexus, as a state machine over the three tables workspaces,        *)
(* workspace_members and team_invitations, with the task numbering of the  *)
(* TaskDialog over the tasks table.                                        *)
(*                                                                         *)
(* The browser client talks to the data store as the signed-in user, so    *)
(* its reads and writes pass the row-level-security policies of the        *)
(* schema; the send-invitation function uses the service-role key and the  *)
(* create_workspace_with_owner procedure is SECURITY DEFINER, so neither   *)
(* is filtered by the policies.                                            *)
(***************************************************************************)
EXTENDS Integers, FiniteSets, Sequences, TLC

\* ------------------------------------------------------------------ bounds
MaxWorkspaces == 2       \* workspace rows ever inserted
MaxMembers == 4          \* membership rows ever inserted
MaxInvitations == 2      \* invitation rows ever inserted
MaxWeeks == 2            \* the clock runs over MaxWeeks invitation lifetimes
NumRequests == 2         \* send-invitation requests ever served
NumPages == 2            \* AcceptInvite pages ever mounted
MaxTasks == 3            \* task rows ever inserted
NumDialogs == 2          \* TaskDialogs open at once
NumProjects == 2         \* projects

\* ------------------------------------------------------------- value sets
NoUser == "anon"                         \* auth.uid() IS NULL, user == null
Users == {"alice", "bob", "carol"}
Callers == Users \cup {NoUser}
Roles == {"owner", "admin", "member", "viewer"}
Slugs == {"acme", "beta", "gamma"}
NoRow == [id |-> 0]                      \* no row / null data
NoTime == 0 - 1                          \* a NULL timestamp
NoToken == 0                             \* searchParams.get("token") == null
InviteTtlDays == 7                       \* interval '7 days'

\* auth.users.email of each user
AuthEmail(u) ==
  CASE u = "alice" -> "alice@x.com"
    [] u = "bob" -> "bob@x.com"
    [] u = "carol" -> "carol@x.com"
    [] OTHER -> "null"

\* the addresses typed into the invite dialog
RequestEmails == {"carol@x.com", "Carol@x.com"}

\* String.prototype.toLowerCase on the addresses of the model
toLowerCase(e) ==
  CASE e = "Carol@x.com" -> "carol@x.com"
    [] e = "Bob@x.com" -> "bob@x.com"
    [] e = "Alice@x.com" -> "alice@x.com"
    [] OTHER -> e

\* error codes of the data store
OK == "ok"
UNIQUE_VIOLATION == "23505"
FK_VIOLATION == "23503"
NOT_NULL_VIOLATION == "23502"
RLS_VIOLATION == "42501"
RAISED == "P0001"
UNAVAILABLE == "unavailable"             \* any other data-store / network failure

VARIABLES
  now,                 \* the clock, in days
  workspaces,          \* public.workspaces
  workspace_members,   \* public.workspace_members
  team_invitations,    \* public.team_invitations
  nextId,              \* rows inserted so far, per table
  rpc,                 \* the last create_workspace_with_owner call: its error, the id it
                       \* returned, the workspace createWorkspace returned to its caller
  team,                \* the Team page: user, currentWorkspace, members, invitations
  req,                 \* send-invitation requests
  page,                \* AcceptInvite pages
  tasks,               \* public.tasks
  nextTask,            \* task rows inserted so far
  dialog               \* TaskDialogs in create mode

vars == <<now, workspaces, workspace_members, team_invitations, nextId, rpc, team,
          req, page, tasks, nextTask, dialog>>

\* The task board: the tasks table and the dialogs over it.
board == <<tasks, nextTask, dialog>>

tables == <<workspaces, workspace_members, team_invitations>>

\* ------------------------------------------------------ schema and policies

\* is_workspace_member(_user_id, _workspace_id)
is_workspace_member(members, u, w) ==
  \E m \in members : m.user_id = u /\ m.workspace_id = w

\* has_workspace_role(_user_id, _workspace_id, _role)
has_workspace_role(members, u, w, r) ==
  \E m \in members : m.user_id = u /\ m.workspace_id = w /\ m.role = r

\* USING of "Owners/admins can manage members" and "Workspace admins can manage
\* invitations" (FOR ALL: also the WITH CHECK of an insert)
ManagesWorkspace(members, u, w) ==
  \/ has_workspace_role(members, u, w, "owner")
  \/ has_workspace_role(members, u, w, "admin")

\* INSERT on workspace_members as user u: the permissive policies, OR-ed
MemberInsertAllowed(members, u, row) ==
  \/ ManagesWorkspace(members, u, row.workspace_id)
  \/ (u = row.user_id /\ row.role = "owner")

\* SELECT on team_invitations as user u
InvitationVisible(members, u, inv) ==
  \/ ManagesWorkspace(members, u, inv.workspace_id)
  \/ inv.email = AuthEmail(u)

\* UNIQUE(workspace_id, user_id) of workspace_members
MemberUniqueOk(members, row) ==
  ~ \E m \in members : m.workspace_id = row.workspace_id /\ m.user_id = row.user_id

\* slug TEXT UNIQUE of workspaces
SlugUniqueOk(wss, slug) ==
  ~ \E w \in wss : w.slug = slug

\* UNIQUE(workspace_id, email) of team_invitations
InvitationUniqueOk(invs, w, email) ==
  ~ \E i \in invs : i.workspace_id = w /\ i.email = email

WorkspaceExists(wss, w) == \E x \in wss : x.id = w

\* ---------------------------------------------------------------- bootstrap

\* INSERT INTO public.workspaces (name, slug, description, created_by)
InsertWorkspace(wss, id, slug, created_by) ==
  IF SlugUniqueOk(wss, slug)
  THEN [error |-> OK, rows |-> wss \cup {[id |-> id, slug |-> slug, created_by |-> created_by]}]
  ELSE [error |-> UNIQUE_VIOLATION, rows |-> wss]

\* INSERT INTO public.workspace_members (workspace_id, user_id, role), without the
\* policies (SECURITY DEFINER, service role): NOT NULL, the foreign key, UNIQUE
InsertMember(wss, members, id, w, u, role) ==
  IF u = NoUser THEN [error |-> NOT_NULL_VIOLATION, rows |-> members]
  ELSE IF ~ WorkspaceExists(wss, w) THEN [error |-> FK_VIOLATION, rows |-> members]
  ELSE IF ~ MemberUniqueOk(members, [workspace_id |-> w, user_id |-> u])
  THEN [error |-> UNIQUE_VIOLATION, rows |-> members]
  ELSE [error |-> OK,
        rows |-> members \cup {[id |-> id, workspace_id |-> w, user_id |-> u, role |-> role]}]

\* The procedure without its second insert: a workspace with no owner row.
create_workspace_without_owner(wss, members, ids, caller, slug) ==
  IF caller = NoUser
  THEN [error |-> RAISED, workspaces |-> wss, members |-> members, ids |-> ids, id |-> 0]
  ELSE LET w == InsertWorkspace(wss, ids.ws + 1, slug, caller) IN
       IF w.error # OK
       THEN [error |-> w.error, workspaces |-> wss, members |-> members, ids |-> ids, id |-> 0]
       ELSE [error |-> OK, workspaces |-> w.rows, members |-> members,
             ids |-> [ids EXCEPT !.ws = @ + 1], id |-> ids.ws + 1]

\* The procedure without its auth.uid() IS NULL test: the inserts run with a NULL user.
create_workspace_unchecked(wss, members, ids, caller, slug) ==
  LET w == InsertWorkspace(wss, ids.ws + 1, slug, caller) IN
  IF w.error # OK
  THEN [error |-> w.error, workspaces |-> wss, members |-> members, ids |-> ids, id |-> 0]
  ELSE LET m == InsertMember(w.rows, members, ids.mem + 1, ids.ws + 1, caller, "owner") IN
       IF m.error # OK
       THEN [error |-> m.error, workspaces |-> wss, members |-> members, ids |-> ids, id |-> 0]
       ELSE [error |-> OK, workspaces |-> w.rows, members |-> m.rows,
             ids |-> [ids EXCEPT !.ws = @ + 1, !.mem = @ + 1], id |-> ids.ws + 1]

\* public.create_workspace_with_owner(_name, _slug, _description): one transaction,
\* so an exception of either insert leaves both tables as they were.
create_workspace_with_owner(wss, members, ids, caller, slug) ==
  IF caller = NoUser
  THEN [error |-> RAISED, workspaces |-> wss, members |-> members, ids |-> ids, id |-> 0]
  ELSE LET w == InsertWorkspace(wss, ids.ws + 1, slug, caller) IN
       IF w.error # OK
       THEN [error |-> w.error, workspaces |-> wss, members |-> members, ids |-> ids, id |-> 0]
       ELSE LET m == InsertMember(w.rows, members, ids.mem + 1, ids.ws + 1, caller, "owner") IN
            IF m.error # OK
            THEN [error |-> m.error, workspaces |-> wss, members |-> members, ids |-> ids,
                  id |-> 0]
            ELSE [error |-> OK, workspaces |-> w.rows, members |-> m.rows,
                  ids |-> [ids EXCEPT !.ws = @ + 1, !.mem = @ + 1], id |-> ids.ws + 1]

\* A remote-procedure call of create_workspace_with_owner by any caller, signed in or not.
RpcCall(caller, slug) ==
  /\ LET r == create_workspace_with_owner(workspaces, workspace_members, nextId, caller, slug) IN
       /\ r.error = OK => (nextId.ws < MaxWorkspaces /\ nextId.mem < MaxMembers)
       /\ workspaces' = r.workspaces
       /\ workspace_members' = r.members
       /\ nextId' = r.ids
       /\ rpc' = [error |-> r.error, id |-> r.id, workspace |-> 0]
  /\ UNCHANGED <<now, team_invitations, team, req, page>>
  /\ UNCHANGED board

\* WorkspaceProvider.createWorkspace(name, slug, description) of the signed-in user:
\* the rpc, then the fetch of the created row (fetchOk: that read returned a row).
\* It returns the workspace, or null.
createWorkspace(user, slug, fetchOk) ==
  /\ IF user = NoUser
     THEN /\ rpc' = [error |-> "", id |-> 0, workspace |-> 0]
          /\ UNCHANGED <<workspaces, workspace_members, nextId>>
     ELSE LET r == create_workspace_with_owner(workspaces, workspace_members, nextId,
                                               user, slug) IN
          /\ r.error = OK => (nextId.ws < MaxWorkspaces /\ nextId.mem < MaxMembers)
          /\ workspaces' = r.workspaces
          /\ workspace_members' = r.members
          /\ nextId' = r.ids
          /\ rpc' = [error |-> r.error, id |-> r.id,
                     workspace |-> IF r.error = OK /\ fetchOk THEN r.id ELSE 0]
  /\ UNCHANGED <<now, team_invitations, team, req, page>>
  /\ UNCHANGED board

\* ---------------------------------------------------------------- the clock
\* Time passes, one invitation lifetime at a step: an invitation is met before, at
\* and after its expires_at.
Tick ==
  /\ now < MaxWeeks * InviteTtlDays
  /\ now' = now + InviteTtlDays
  /\ UNCHANGED <<workspaces, workspace_members, team_invitations, nextId, rpc,
                 team, req, page>>
  /\ UNCHANGED board

\* ------------------------------------------------------------ the Team page

NoTeam == [user |-> NoUser, currentWorkspace |-> 0, members |-> {}, invitations |-> {}]

\* fetchTeamData(): the members and the pending invitations of currentWorkspace that
\* the policies let user u read.
TeamData(members, invs, u, w) ==
  [user |-> u, currentWorkspace |-> w,
   members |-> {m \in members : m.workspace_id = w /\ is_workspace_member(members, u, m.workspace_id)},
   invitations |-> {i \in invs : /\ i.workspace_id = w
                                 /\ i.accepted_at = NoTime
                                 /\ InvitationVisible(members, u, i)}]

\* currentUserRole and canManageMembers, from the members the page holds
canManageMembers(t) ==
  \E m \in t.members : m.user_id = t.user /\ m.role \in {"owner", "admin"}

\* The remove button without its member.role !== "owner" test.
RemoveOfferedAnyRole(t, m) ==
  /\ canManageMembers(t)
  /\ m \in t.members
  /\ m.user_id # t.user

\* The remove button of a member row is rendered.
RemoveOffered(t, m) ==
  /\ canManageMembers(t)
  /\ m \in t.members
  /\ m.role # "owner"
  /\ m.user_id # t.user

\* The Team page is opened (or refreshed) by a user on a workspace of their list.
fetchTeamData(u, w) ==
  /\ u \in Users
  /\ is_workspace_member(workspace_members, u, w)
  /\ team' = TeamData(workspace_members, team_invitations, u, w)
  /\ team' # team
  /\ UNCHANGED <<now, workspaces, workspace_members, team_invitations, nextId,
                 rpc, req, page>>
  /\ UNCHANGED board

\* handleRemoveMember(memberId): DELETE ... WHERE id = memberId under the policy
\* "Owners/admins can manage members", then fetchTeamData().
handleRemoveMember(m) ==
  /\ RemoveOffered(team, m)
  /\ workspace_members' =
       {x \in workspace_members :
          ~ (x.id = m.id /\ ManagesWorkspace(workspace_members, team.user, x.workspace_id))}
  /\ team' = TeamData(workspace_members', team_invitations, team.user, team.currentWorkspace)
  /\ UNCHANGED <<now, workspaces, team_invitations, nextId, rpc, req, page>>
  /\ UNCHANGED board

\* handleCancelInvitation(invitationId): DELETE ... WHERE id = invitationId under the
\* policy "Workspace admins can manage invitations", then fetchTeamData().
handleCancelInvitation(i) ==
  /\ canManageMembers(team)
  /\ i \in team.invitations
  /\ team_invitations' =
       {x \in team_invitations :
          ~ (x.id = i.id /\ ManagesWorkspace(workspace_members, team.user, x.workspace_id))}
  /\ team' = TeamData(workspace_members, team_invitations', team.user, team.currentWorkspace)
  /\ UNCHANGED <<now, workspaces, workspace_members, nextId, rpc, req, page>>
  /\ UNCHANGED board

\* ------------------------------------------------- send-invitation (handler)

Requests == 1..NumRequests
WorkspaceIds == 1..MaxWorkspaces

IdleRequest ==
  [pc |-> "idle", email |-> "", workspaceId |-> 0, role |-> "", duplicate |-> FALSE,
   invitation |-> NoRow, handler |-> "", status |-> 0, success |-> FALSE,
   emailSent |-> FALSE, sent |-> FALSE, body |-> {}]

\* The keys of the JSON bodies the function answers with.
ErrorBody == {"error"}
InvitationBody == {"success", "invitation"}
InviteUrlBody == {"success", "invitation", "inviteUrl", "emailSent"}

\* catch (error): status 500 with { error: error.message }
Failed(request) == [request EXCEPT !.pc = "done", !.status = 500, !.body = ErrorBody]

\* Every insert error is taken for a duplicate.
AfterInsertAnyError(error) == IF error = OK THEN "email" ELSE "duplicate"

\* if (inviteError) { if (inviteError.code === "23505") {...} throw inviteError }:
\* where the handler goes on after the insert
AfterInsert(error) ==
  IF error = OK THEN "email"
  ELSE IF error = UNIQUE_VIOLATION THEN "duplicate"
  ELSE "throw"

\* The address as the handler stores it and looks it up, without toLowerCase().
StoredEmailAsTyped(email) == email

\* email.toLowerCase(): the address as the handler stores it and looks it up
StoredEmail(email) == toLowerCase(email)

\* The row with expires_at defaulting to now() alone.
NewInvitationExpiresNow(id, w, email, role) ==
  [id |-> id, workspace_id |-> w, email |-> email, role |-> role, token |-> id,
   expires_at |-> now, accepted_at |-> NoTime]

\* The row a successful insert creates: token and expires_at are column defaults
\* (a fresh random token, now() + interval '7 days'), accepted_at is NULL.
NewInvitation(id, w, email, role) ==
  [id |-> id, workspace_id |-> w, email |-> email, role |-> role, token |-> id,
   expires_at |-> now + InviteTtlDays, accepted_at |-> NoTime]

\* supabase.from("team_invitations").insert({...}) with the service-role key
InsertInvitation(wss, invs, id, w, email, role) ==
  IF ~ WorkspaceExists(wss, w) THEN [error |-> FK_VIOLATION, rows |-> invs, row |-> NoRow]
  ELSE IF ~ InvitationUniqueOk(invs, w, email)
  THEN [error |-> UNIQUE_VIOLATION, rows |-> invs, row |-> NoRow]
  ELSE [error |-> OK, rows |-> invs \cup {NewInvitation(id, w, email, role)},
        row |-> NewInvitation(id, w, email, role)]

\* .select("*").eq("workspace_id", workspaceId).eq("email", email.toLowerCase()).single()
ExistingInvite(invs, w, email) ==
  LET found == {i \in invs : i.workspace_id = w /\ i.email = email} IN
  IF Cardinality(found) = 1 THEN CHOOSE i \in found : TRUE ELSE NoRow

\* The request arrives and the insert is attempted (dbOk: the data store answered).
ServeInsert(r, email, w, role, dbOk) ==
  /\ req[r].pc = "idle"
  /\ \A q \in Requests : q < r => req[q].pc # "idle"
  /\ nextId.inv < MaxInvitations
  /\ LET ins == InsertInvitation(workspaces, team_invitations, nextId.inv + 1, w,
                                 StoredEmail(email), role)
         started == [IdleRequest EXCEPT !.email = email, !.workspaceId = w, !.role = role]
     IN
     IF ~ dbOk
     THEN /\ req' = [req EXCEPT ![r] = Failed(started)]
          /\ UNCHANGED <<team_invitations, nextId>>
     ELSE IF AfterInsert(ins.error) = "email"
     THEN /\ team_invitations' = ins.rows
          /\ nextId' = [nextId EXCEPT !.inv = @ + 1]
          /\ req' = [req EXCEPT ![r] = [started EXCEPT !.pc = "email", !.invitation = ins.row]]
     ELSE IF AfterInsert(ins.error) = "duplicate"
     THEN /\ req' = [req EXCEPT ![r] = [started EXCEPT !.pc = "duplicate"]]
          /\ UNCHANGED <<team_invitations, nextId>>
     ELSE /\ req' = [req EXCEPT ![r] = Failed(started)]
          /\ UNCHANGED <<team_invitations, nextId>>
  /\ UNCHANGED <<now, workspaces, workspace_members, rpc, team, page>>
  /\ UNCHANGED board

\* The duplicate path writing the role of the request into the existing row.
ServeDuplicateUpdatesRole(r, dbOk) ==
  /\ req[r].pc = "duplicate"
  /\ LET existingInvite ==
           IF dbOk
           THEN ExistingInvite(team_invitations, req[r].workspaceId, StoredEmail(req[r].email))
           ELSE NoRow
         updated == [existingInvite EXCEPT !.role = req[r].role]
     IN
     IF existingInvite.id # 0
     THEN /\ team_invitations' = (team_invitations \ {existingInvite}) \cup {updated}
          /\ req' = [req EXCEPT ![r].pc = "email", ![r].duplicate = TRUE,
                                ![r].invitation = updated]
     ELSE /\ req' = [req EXCEPT ![r] = Failed(@)]
          /\ UNCHANGED team_invitations
  /\ UNCHANGED <<now, workspaces, workspace_members, nextId, rpc, team, page>>
  /\ UNCHANGED board

\* if (inviteError.code === "23505"): fetch the existing invitation; without one the
\* insert error is thrown and answered with 500.
ServeDuplicate(r, dbOk) ==
  /\ req[r].pc = "duplicate"
  /\ LET existingInvite ==
           IF dbOk
           THEN ExistingInvite(team_invitations, req[r].workspaceId, StoredEmail(req[r].email))
           ELSE NoRow
     IN
     IF existingInvite.id # 0
     THEN req' = [req EXCEPT ![r].pc = "email", ![r].duplicate = TRUE,
                             ![r].invitation = existingInvite]
     ELSE req' = [req EXCEPT ![r] = Failed(@)]
  /\ UNCHANGED <<now, workspaces, workspace_members, team_invitations, nextId,
                 rpc, team, page>>
  /\ UNCHANGED board

\* The two copies of the function in the repository: the one with emailSent and the
\* one at supabase/functions/send-invitation/index.ts.
Handlers == {"part_006", "index_ts"}

\* The role named in the email of a request: getEmailHtml(inviterName, workspaceName,
\* role, inviteUrl) takes the role of the request body on both paths.
EmailRole(request) == request.role

\* The function undoing the insert when the email cannot be sent.
ServeEmailRollback(r, handler, apiKey, sendOk) ==
  /\ req[r].pc = "email"
  /\ IF apiKey /\ sendOk
     THEN /\ req' = [req EXCEPT ![r].pc = "done", ![r].handler = handler, ![r].status = 200,
                                ![r].success = TRUE, ![r].emailSent = TRUE,
                                ![r].sent = TRUE, ![r].body = InviteUrlBody]
          /\ UNCHANGED team_invitations
     ELSE /\ req' = [req EXCEPT ![r] = [Failed(@) EXCEPT !.handler = handler]]
          /\ team_invitations' = {i \in team_invitations : i.id # req[r].invitation.id}
  /\ UNCHANGED <<now, workspaces, workspace_members, nextId, rpc, team, page>>
  /\ UNCHANGED board

\* The email send and the response, by either copy of the function. apiKey:
\* RESEND_API_KEY is set; sendOk: the mail API accepted the message. The copy with
\* emailSent sends only with a key and catches a failed send; the other copy awaits
\* sendEmail outside any try, so a failed send is answered with 500.
ServeEmail(r, handler, apiKey, sendOk) ==
  /\ req[r].pc = "email"
  /\ IF handler = "part_006"
     THEN req' = [req EXCEPT ![r].pc = "done", ![r].handler = handler, ![r].status = 200,
                             ![r].success = TRUE, ![r].emailSent = (apiKey /\ sendOk),
                             ![r].sent = (apiKey /\ sendOk), ![r].body = InviteUrlBody]
     ELSE IF apiKey /\ sendOk
     THEN req' = [req EXCEPT ![r].pc = "done", ![r].handler = handler, ![r].status = 200,
                             ![r].success = TRUE, ![r].sent = TRUE,
                             ![r].body = InvitationBody]
     ELSE req' = [req EXCEPT ![r] = [Failed(@) EXCEPT !.handler = handler]]
  /\ UNCHANGED <<now, workspaces, workspace_members, team_invitations, nextId, rpc, team, page>>
  /\ UNCHANGED board

\* ------------------------------------------------------ AcceptInvite (page)

Pages == 1..NumPages

Msg(text, arg) == [text |-> text, arg |-> arg]
NoMessage == Msg("", "")
InvalidLink == Msg("Invalid invitation link", "")
PleaseSignIn == Msg("Please sign in to accept this invitation", "")
ExpiredOrUsed == Msg("This invitation has expired or has already been used", "")
Expired == Msg("This invitation has expired", "")
SentTo(email) == Msg("This invitation was sent to", email)
AlreadyMember == Msg("You are already a member of this workspace", "")
AddedTo == Msg("You've been added to", "")
ErrorMessage(code) == Msg("error.message", code)

Unmounted ==
  [pc |-> "unmounted", token |-> NoToken, user |-> NoUser, status |-> "loading",
   message |-> NoMessage, invitation |-> NoRow]

\* The lookup without .is("accepted_at", null).
LookupAnyInvitation(members, invs, u, token) ==
  LET found == {i \in invs : i.token = token /\ InvitationVisible(members, u, i)} IN
  IF Cardinality(found) = 1 THEN CHOOSE i \in found : TRUE ELSE NoRow

\* .from("team_invitations").select(...).eq("token", token).is("accepted_at", null)
\* .single(), as user u: the rows the SELECT policies show
LookupInvitation(members, invs, u, token) ==
  LET found == {i \in invs : /\ i.token = token
                             /\ i.accepted_at = NoTime
                             /\ InvitationVisible(members, u, i)} IN
  IF Cardinality(found) = 1 THEN CHOOSE i \in found : TRUE ELSE NoRow

\* The insert of the acceptance flow without the table's UNIQUE(workspace_id, user_id).
ClientInsertMemberNoUnique(wss, members, id, u, w, role) ==
  LET row == [id |-> id, workspace_id |-> w, user_id |-> u, role |-> role] IN
  IF ~ MemberInsertAllowed(members, u, row) THEN [error |-> RLS_VIOLATION, rows |-> members]
  ELSE IF ~ WorkspaceExists(wss, w) THEN [error |-> FK_VIOLATION, rows |-> members]
  ELSE [error |-> OK, rows |-> members \cup {row}]

\* .from("workspace_members").insert({workspace_id, user_id: user.id, role}) as user
\* u: the WITH CHECK of the insert policies, then the constraints of the table.
ClientInsertMember(wss, members, id, u, w, role) ==
  LET row == [id |-> id, workspace_id |-> w, user_id |-> u, role |-> role] IN
  IF ~ MemberInsertAllowed(members, u, row) THEN [error |-> RLS_VIOLATION, rows |-> members]
  ELSE InsertMember(wss, members, id, w, u, role)

\* .from("team_invitations").update({accepted_at}).eq("id", id) as user u: the rows
\* the policy "Workspace admins can manage invitations" lets u update.
ClientStampAccepted(members, invs, u, id, at) ==
  {IF i.id = id /\ ManagesWorkspace(members, u, i.workspace_id)
   THEN [i EXCEPT !.accepted_at = at] ELSE i : i \in invs}

\* The effect testing the user before the token.
MountUserFirst(p, token, u) ==
  /\ page[p].pc = "unmounted"
  /\ \A q \in Pages : q < p => page[q].pc # "unmounted"
  /\ page' = [page EXCEPT ![p] =
       IF u = NoUser
       THEN [Unmounted EXCEPT !.pc = "done", !.token = token, !.status = "login_required",
                              !.message = PleaseSignIn]
       ELSE IF token = NoToken
       THEN [Unmounted EXCEPT !.pc = "done", !.user = u, !.status = "error",
                              !.message = InvalidLink]
       ELSE [Unmounted EXCEPT !.pc = "lookup", !.token = token, !.user = u]]
  /\ UNCHANGED <<now, workspaces, workspace_members, team_invitations, nextId,
                 rpc, team, req>>
  /\ UNCHANGED board

\* The page is opened with ?token=... by a signed-in user or by nobody; the effect
\* runs once auth has loaded.
Mount(p, token, u) ==
  /\ page[p].pc = "unmounted"
  /\ \A q \in Pages : q < p => page[q].pc # "unmounted"
  /\ page' = [page EXCEPT ![p] =
       IF token = NoToken
       THEN [Unmounted EXCEPT !.pc = "done", !.user = u, !.status = "error",
                              !.message = InvalidLink]
       ELSE IF u = NoUser
       THEN [Unmounted EXCEPT !.pc = "done", !.token = token, !.status = "login_required",
                              !.message = PleaseSignIn]
       ELSE [Unmounted EXCEPT !.pc = "lookup", !.token = token, !.user = u]]
  /\ UNCHANGED <<now, workspaces, workspace_members, team_invitations, nextId,
                 rpc, team, req>>
  /\ UNCHANGED board

\* The page is opened while auth is still loading: the effect tests the token, and
\* with a token it returns at if (authLoading) and waits for the next run.
MountLoading(p, token) ==
  /\ page[p].pc = "unmounted"
  /\ \A q \in Pages : q < p => page[q].pc # "unmounted"
  /\ page' = [page EXCEPT ![p] =
       IF token = NoToken
       THEN [Unmounted EXCEPT !.pc = "done", !.status = "error", !.message = InvalidLink]
       ELSE [Unmounted EXCEPT !.pc = "authLoading", !.token = token]]
  /\ UNCHANGED <<now, workspaces, workspace_members, team_invitations, nextId,
                 rpc, team, req>>
  /\ UNCHANGED board

\* Auth has loaded with user u (or nobody): the effect runs again.
AuthLoaded(p, u) ==
  /\ page[p].pc = "authLoading"
  /\ page' = [page EXCEPT ![p] =
       IF u = NoUser
       THEN [@ EXCEPT !.pc = "done", !.status = "login_required", !.message = PleaseSignIn]
       ELSE [@ EXCEPT !.pc = "lookup", !.user = u]]
  /\ UNCHANGED <<now, workspaces, workspace_members, team_invitations, nextId,
                 rpc, team, req>>
  /\ UNCHANGED board

\* acceptInvitation(), up to the membership insert: the lookup, the expiry test and
\* the email test.
AcceptLookup(p, dbOk) ==
  /\ page[p].pc = "lookup"
  /\ LET invitation ==
           IF dbOk
           THEN LookupInvitation(workspace_members, team_invitations, page[p].user,
                                 page[p].token)
           ELSE NoRow
     IN
     page' = [page EXCEPT ![p] =
       IF invitation.id = 0
       THEN [@ EXCEPT !.pc = "done", !.status = "error", !.message = ExpiredOrUsed]
       ELSE IF invitation.expires_at < now
       THEN [@ EXCEPT !.pc = "done", !.status = "error", !.message = Expired]
       ELSE IF toLowerCase(AuthEmail(page[p].user)) # toLowerCase(invitation.email)
       THEN [@ EXCEPT !.pc = "done", !.status = "error", !.message = SentTo(invitation.email)]
       ELSE [@ EXCEPT !.pc = "insert", !.invitation = invitation]]
  /\ UNCHANGED <<now, workspaces, workspace_members, team_invitations, nextId,
                 rpc, team, req>>
  /\ UNCHANGED board

\* The membership insert with an unexpected error swallowed: the run ends without
\* setting the status.
AcceptInsertSilent(p, dbOk) ==
  /\ page[p].pc = "insert"
  /\ nextId.mem < MaxMembers
  /\ LET inv == page[p].invitation
         ins == IF dbOk
                THEN ClientInsertMember(workspaces, workspace_members, nextId.mem + 1,
                                        page[p].user, inv.workspace_id, inv.role)
                ELSE [error |-> UNAVAILABLE, rows |-> workspace_members]
     IN
     /\ workspace_members' = ins.rows
     /\ nextId' = IF ins.error = OK THEN [nextId EXCEPT !.mem = @ + 1] ELSE nextId
     /\ page' = [page EXCEPT ![p] =
          IF ins.error = OK THEN [@ EXCEPT !.pc = "stamp"]
          ELSE IF ins.error = UNIQUE_VIOLATION
          THEN [@ EXCEPT !.pc = "done", !.status = "error", !.message = AlreadyMember]
          ELSE [@ EXCEPT !.pc = "done"]]
  /\ UNCHANGED <<now, workspaces, team_invitations, rpc, team, req>>
  /\ UNCHANGED board

\* acceptInvitation(): the membership insert and the handling of its error.
AcceptInsert(p, dbOk) ==
  /\ page[p].pc = "insert"
  /\ nextId.mem < MaxMembers
  /\ LET inv == page[p].invitation
         ins == IF dbOk
                THEN ClientInsertMember(workspaces, workspace_members, nextId.mem + 1,
                                        page[p].user, inv.workspace_id, inv.role)
                ELSE [error |-> UNAVAILABLE, rows |-> workspace_members]
     IN
     /\ workspace_members' = ins.rows
     /\ nextId' = IF ins.error = OK THEN [nextId EXCEPT !.mem = @ + 1] ELSE nextId
     /\ page' = [page EXCEPT ![p] =
          IF ins.error = OK THEN [@ EXCEPT !.pc = "stamp"]
          ELSE IF ins.error = UNIQUE_VIOLATION
          THEN [@ EXCEPT !.pc = "done", !.status = "error", !.message = AlreadyMember]
          ELSE [@ EXCEPT !.pc = "done", !.status = "error", !.message = ErrorMessage(ins.error)]]
  /\ UNCHANGED <<now, workspaces, team_invitations, rpc, team, req>>
  /\ UNCHANGED board

\* The update of accepted_at with its error thrown: the run ends in error after the
\* membership insert.
AcceptStampChecked(p, dbOk) ==
  /\ page[p].pc = "stamp"
  /\ team_invitations' =
       IF dbOk
       THEN ClientStampAccepted(workspace_members, team_invitations, page[p].user,
                                page[p].invitation.id, now)
       ELSE team_invitations
  /\ page' = [page EXCEPT ![p] =
       IF dbOk THEN [@ EXCEPT !.pc = "done", !.status = "success", !.message = AddedTo]
       ELSE [@ EXCEPT !.pc = "done", !.status = "error",
                      !.message = ErrorMessage(UNAVAILABLE)]]
  /\ UNCHANGED <<now, workspaces, workspace_members, nextId, rpc, team, req>>
  /\ UNCHANGED board

\* acceptInvitation(): the update of accepted_at, whose result is not looked at,
\* then setStatus("success").
AcceptStamp(p, dbOk) ==
  /\ page[p].pc = "stamp"
  /\ team_invitations' =
       IF dbOk
       THEN ClientStampAccepted(workspace_members, team_invitations, page[p].user,
                                page[p].invitation.id, now)
       ELSE team_invitations
  /\ page' = [page EXCEPT ![p].pc = "done", ![p].status = "success", ![p].message = AddedTo]
  /\ UNCHANGED <<now, workspaces, workspace_members, nextId, rpc, team, req>>
  /\ UNCHANGED board

\* The effect runs again on a page whose run has ended, because the user it depends
\* on has changed to u (signed out, or signed in elsewhere): it tests the token and
\* the user and calls acceptInvitation() again, without setting the status.
Rerun(p, u) ==
  /\ page[p].pc = "done"
  /\ u # page[p].user
  /\ page' = [page EXCEPT ![p] =
       IF page[p].token = NoToken
       THEN [@ EXCEPT !.user = u, !.status = "error", !.message = InvalidLink]
       ELSE IF u = NoUser
       THEN [@ EXCEPT !.user = u, !.status = "login_required", !.message = PleaseSignIn]
       ELSE [@ EXCEPT !.pc = "lookup", !.user = u, !.invitation = NoRow]]
  /\ UNCHANGED <<now, workspaces, workspace_members, team_invitations, nextId,
                 rpc, team, req>>
  /\ UNCHANGED board

\* "Sign In to Continue": the link leads to /auth?redirect=/accept-invite?token=...,
\* where the Auth page, once user u is signed in, navigates to "/" without reading
\* the redirect parameter. The acceptance page is left and the token is gone.
SignInViaLink(p, u) ==
  /\ page[p].pc = "done"
  /\ page[p].status = "login_required"
  /\ u # NoUser
  /\ page' = [page EXCEPT ![p].pc = "left", ![p].user = u, ![p].token = NoToken]
  /\ UNCHANGED <<now, workspaces, workspace_members, team_invitations, nextId,
                 rpc, team, req>>
  /\ UNCHANGED board

\* -------------------------------------------------------- tasks (TaskDialog)

Projects == 1 .. NumProjects
Dialogs == 1 .. NumDialogs

\* A TaskDialog in create mode: between the read of the highest task number and
\* the insert it holds projectId and nextNumber.
IdleDialog == [pc |-> "idle", projectId |-> 0, nextNumber |-> 0]

\* The task_number of the row that
\* select("task_number").eq("project_id", projectId).order(desc).limit(1).single()
\* returns; 0 stands for the null data of a project without tasks and of a failed
\* read (the error of the read is not looked at).
maxTask(rows, projectId, readOk) ==
  LET numbers == {t.task_number : t \in {x \in rows : x.project_id = projectId}} IN
    IF readOk /\ numbers # {}
    THEN CHOOSE n \in numbers : \A m \in numbers : m <= n
    ELSE 0

\* const nextNumber = (maxTask?.task_number || 0) + 1
nextNumber(rows, projectId, readOk) == maxTask(rows, projectId, readOk) + 1

\* The tasks table has a primary key on id and no constraint on task_number.
InsertTask(rows, id, projectId, number) ==
  rows \cup {[id |-> id, project_id |-> projectId, task_number |-> number]}

\* handleSubmit, create branch, up to its first await: the read of the highest
\* task number of the project.
SubmitRead(d, projectId, readOk) ==
  /\ dialog[d].pc = "idle"
  /\ nextTask < MaxTasks
  /\ dialog' = [dialog EXCEPT ![d] = [pc |-> "insert", projectId |-> projectId,
                                      nextNumber |-> nextNumber(tasks, projectId, readOk)]]
  /\ UNCHANGED <<tasks, nextTask>>
  /\ UNCHANGED <<now, workspaces, workspace_members, team_invitations, nextId, rpc, team,
                 req, page>>

\* handleSubmit, create branch, the insert with task_number: nextNumber; a failed
\* insert throws and the dialog reports the error.
SubmitInsert(d, dbOk) ==
  /\ dialog[d].pc = "insert"
  /\ IF dbOk
     THEN /\ nextTask < MaxTasks
          /\ tasks' = InsertTask(tasks, nextTask + 1, dialog[d].projectId,
                                 dialog[d].nextNumber)
          /\ nextTask' = nextTask + 1
     ELSE UNCHANGED <<tasks, nextTask>>
  /\ dialog' = [dialog EXCEPT ![d] = IdleDialog]
  /\ UNCHANGED <<now, workspaces, workspace_members, team_invitations, nextId, rpc, team,
                 req, page>>

\* handleDelete of the dialog that edits task t: delete().eq("id", task.id).
handleDelete(t, dbOk) ==
  /\ t \in tasks
  /\ tasks' = IF dbOk THEN tasks \ {t} ELSE tasks
  /\ UNCHANGED <<nextTask, dialog>>
  /\ UNCHANGED <<now, workspaces, workspace_members, team_invitations, nextId, rpc, team,
                 req, page>>

\* ------------------------------------------------------------ specification

\* The data store when the system starts: one workspace with its owner and an admin
\* (a row the policy "Owners/admins can manage members" lets the owner insert).
SeedWorkspaces == {[id |-> 1, slug |-> "acme", created_by |-> "alice"]}
SeedMembers ==
  {[id |-> 1, workspace_id |-> 1, user_id |-> "alice", role |-> "owner"],
   [id |-> 2, workspace_id |-> 1, user_id |-> "bob", role |-> "admin"]}

Init ==
  /\ now = 0
  /\ workspaces = SeedWorkspaces
  /\ workspace_members = SeedMembers
  /\ nextId = [ws |-> 1, mem |-> 2, inv |-> 0]
  /\ team_invitations = {}
  /\ rpc = [error |-> "", id |-> 0, workspace |-> 0]
  /\ team = NoTeam
  /\ req = [r \in Requests |-> IdleRequest]
  /\ page = [p \in Pages |-> Unmounted]
  /\ tasks = {}
  /\ nextTask = 0
  /\ dialog = [d \in Dialogs |-> IdleDialog]

\* The whole system: every operation, each with every input.
Bootstrap(callers, slugs) ==
  \/ \E c \in callers, s \in slugs : RpcCall(c, s)
  \/ \E u \in callers, s \in slugs, fetchOk \in BOOLEAN : createWorkspace(u, s, fetchOk)

TeamPage ==
  \/ \E u \in Users, w \in WorkspaceIds : fetchTeamData(u, w)
  \/ \E m \in team.members : handleRemoveMember(m)
  \/ \E i \in team.invitations : handleCancelInvitation(i)

SendInvitation(rs, emails, roles, handlers) ==
  \/ \E r \in rs, e \in emails, w \in WorkspaceIds, role \in roles, dbOk \in BOOLEAN :
       ServeInsert(r, e, w, role, dbOk)
  \/ \E r \in rs, dbOk \in BOOLEAN : ServeDuplicate(r, dbOk)
  \/ \E r \in rs, h \in handlers, apiKey \in BOOLEAN, sendOk \in BOOLEAN :
       ServeEmail(r, h, apiKey, sendOk)

\* One request: with no second request there is no duplicate to fetch.
InviteOnce(emails, roles, handlers) ==
  \/ \E e \in emails, w \in WorkspaceIds, role \in roles, dbOk \in BOOLEAN :
       ServeInsert(1, e, w, role, dbOk)
  \/ \E h \in handlers, apiKey \in BOOLEAN, sendOk \in BOOLEAN :
       ServeEmail(1, h, apiKey, sendOk)

AcceptInvite(ps, users) ==
  \/ \E p \in ps, t \in 0..MaxInvitations, u \in users : Mount(p, t, u)
  \/ \E p \in ps, dbOk \in BOOLEAN : AcceptLookup(p, dbOk)
  \/ \E p \in ps, dbOk \in BOOLEAN : AcceptInsert(p, dbOk)
  \/ \E p \in ps, dbOk \in BOOLEAN : AcceptStamp(p, dbOk)

NextAccept ==
  \/ Tick
  \/ TeamPage
  \/ InviteOnce({"carol@x.com"}, {"owner", "member"}, {"part_006"})
  \/ AcceptInvite(Pages, {"carol", "bob", NoUser})

NextSystem ==
  \/ Bootstrap({"carol"}, {"acme", "beta"})
  \/ TeamPage
  \/ InviteOnce({"carol@x.com"}, {"owner", "member"}, {"part_006"})
  \/ AcceptInvite(Pages, {"carol", "bob"})

Next == NextSystem

\* Bootstrap and member removal alone, with every caller.
NextBootstrap ==
  \/ Bootstrap(Callers, Slugs)
  \/ \E u \in Users, w \in WorkspaceIds : fetchTeamData(u, w)
  \/ \E m \in team.members : handleRemoveMember(m)

\* Invitation creation with every input, by either copy of the function, with the
\* Team page and the clock.
NextInvite ==
  \/ Tick
  \/ TeamPage
  \/ SendInvitation(Requests, RequestEmails, {"admin", "member"}, Handlers)

\* Repeated creation calls for one address, with the invitee accepting.
NextResend ==
  \/ SendInvitation(Requests, {"carol@x.com"}, {"owner"}, {"part_006"})
  \/ AcceptInvite({1}, {"carol"})

\* One acceptance page whose user changes: signing out, signing in, in place or
\* through the sign-in link.
NextEffect ==
  \/ InviteOnce({"carol@x.com"}, {"owner", "member"}, {"part_006"})
  \/ AcceptInvite({1}, {"carol", NoUser})
  \/ \E t \in 0..MaxInvitations : MountLoading(1, t)
  \/ \E u \in {"carol", NoUser} : AuthLoaded(1, u)
  \/ \E u \in {"carol", "bob", NoUser} : Rerun(1, u)
  \/ \E u \in {"carol", "bob"} : SignInViaLink(1, u)

\* Acceptance runs of the invitee, each of whose data-store calls returns.
NextLive ==
  \/ InviteOnce({"carol@x.com"}, {"owner", "member"}, {"part_006"})
  \/ AcceptInvite(Pages, {"carol"})

\* An awaited data-store call returns and the run goes on.
CallsReturn ==
  \A p \in Pages :
    /\ WF_vars(\E dbOk \in BOOLEAN : AcceptLookup(p, dbOk))
    /\ WF_vars(\E dbOk \in BOOLEAN : AcceptInsert(p, dbOk))
    /\ WF_vars(\E dbOk \in BOOLEAN : AcceptStamp(p, dbOk))

Spec == Init /\ [][Next]_vars
SpecLive == Init /\ [][NextLive]_vars /\ CallsReturn
SpecEffect == Init /\ [][NextEffect]_vars
SpecResend == Init /\ [][NextResend]_vars
SpecBootstrap == Init /\ [][NextBootstrap]_vars
SpecInvite == Init /\ [][NextInvite]_vars
SpecAccept == Init /\ [][NextAccept]_vars

\* Task creation and deletion by the open dialogs.
NextTasks ==
  \/ \E d \in Dialogs, projectId \in Projects, readOk \in BOOLEAN :
       SubmitRead(d, projectId, readOk)
  \/ \E d \in Dialogs, dbOk \in BOOLEAN : SubmitInsert(d, dbOk)
  \/ \E t \in tasks, dbOk \in BOOLEAN : handleDelete(t, dbOk)

SpecTasks == Init /\ [][NextTasks]_vars


\* ------------------------------------------------------------------ claims

\* A create_workspace_with_owner call of caller c for slug s, direct or through
\* WorkspaceProvider.createWorkspace.
BootstrapCall(c, s) ==
  \/ RpcCall(c, s)
  \/ \E fetchOk \in BOOLEAN : createWorkspace(c, s, fetchOk)

\* C1: every bootstrap call of a signed-in caller is all-or-nothing. With the slug
\* free it succeeds and adds exactly one workspace row (created_by the caller, the
\* slug, the returned id) and exactly one membership row (that workspace, the
\* caller, owner); with the slug taken, also by an earlier call for the same slug,
\* it fails with the unique violation and adds no row to either table.
C1_AllOrNothing ==
  [][\A c \in Users, s \in Slugs :
       BootstrapCall(c, s) =>
         IF SlugUniqueOk(workspaces, s)
         THEN /\ rpc'.error = OK
              /\ \E w \in workspaces' \ workspaces :
                   /\ workspaces' = workspaces \cup {w}
                   /\ w.id = rpc'.id /\ w.slug = s /\ w.created_by = c
                   /\ \E m \in workspace_members' \ workspace_members :
                        /\ workspace_members' = workspace_members \cup {m}
                        /\ m.workspace_id = w.id /\ m.user_id = c /\ m.role = "owner"
         ELSE /\ rpc'.error = UNIQUE_VIOLATION
              /\ workspaces' = workspaces
              /\ workspace_members' = workspace_members]_vars

\* A call collided on a slug after another call had created a workspace.
C1_Witness ==
  /\ rpc.error = UNIQUE_VIOLATION
  /\ \E w \in workspaces : w.id > 1 /\ w.created_by \in Users
  /\ \A w \in workspaces : \E m \in workspace_members : m.workspace_id = w.id

\* C2: a bootstrap call with no caller identity fails with the exception 'Not
\* authenticated' and leaves the three tables as they were; createWorkspace of a
\* client with no user returns null and writes nothing.
C2_Unauthenticated ==
  [][\A s \in Slugs :
       /\ RpcCall(NoUser, s) =>
            (rpc'.error = RAISED /\ rpc'.id = 0 /\ UNCHANGED tables)
       /\ (\E fetchOk \in BOOLEAN : createWorkspace(NoUser, s, fetchOk)) =>
            (rpc'.workspace = 0 /\ UNCHANGED tables)]_vars

\* An unauthenticated call has been answered.
C2_Witness == rpc.error = RAISED /\ rpc.id = 0

\* C3: every workspace has at least one membership row with role owner.
C3_WorkspaceHasOwner ==
  \A w \in workspaces :
    \E m \in workspace_members : m.workspace_id = w.id /\ m.role = "owner"

\* A second workspace was bootstrapped, a member was removed on the Team page and an
\* invitation was accepted.
C3_Witness ==
  /\ Cardinality(workspaces) = 2
  /\ ~ is_workspace_member(workspace_members, "bob", 1)
  /\ \E p \in Pages : page[p].status = "success"

\* C4: there is at most one membership row per (workspace, user).
C4_OneMembershipPerUser ==
  \A m1, m2 \in workspace_members :
    (m1.workspace_id = m2.workspace_id /\ m1.user_id = m2.user_id) => m1 = m2

\* Two acceptance runs of one user had both read the invitation; the insert of one
\* made the user a member before the insert of the other, which the constraint
\* rejected.
C4_Witness ==
  \E p, q \in Pages :
    /\ p # q
    /\ page[p].user = page[q].user
    /\ page[p].message = AlreadyMember
    /\ page[q].pc \in {"stamp", "done"}
    /\ page[q].invitation.id # 0
    /\ is_workspace_member(workspace_members, page[p].user, page[p].invitation.workspace_id)

\* C5: there is at most one invitation row per (workspace, lowercase email).
C5_OneInvitationPerEmail ==
  \A i1, i2 \in team_invitations :
    (i1.workspace_id = i2.workspace_id /\ toLowerCase(i1.email) = toLowerCase(i2.email))
      => i1 = i2

\* Two requests for one workspace whose addresses differ only in case were in flight
\* together; the second met the row of the first.
C5_Witness ==
  \E q, r \in Requests :
    /\ req[q].email = "carol@x.com" /\ req[r].email = "Carol@x.com"
    /\ req[q].workspaceId = req[r].workspaceId
    /\ req[q].pc = "email" /\ ~ req[q].duplicate
    /\ req[r].pc = "done" /\ req[r].duplicate

\* C6: a repeated creation call for a (workspace, email) pair whose invitation was
\* not cancelled returns success with the id and the token the first call returned.
C6_IdempotentCreation ==
  \A q, r \in Requests :
    (/\ q # r
     /\ req[q].pc = "done" /\ req[q].success /\ ~ req[q].duplicate
     /\ req[r].pc = "done" /\ req[r].duplicate
     /\ req[r].workspaceId = req[q].workspaceId
     /\ StoredEmail(req[r].email) = StoredEmail(req[q].email)
     /\ \E i \in team_invitations : i.id = req[q].invitation.id)
    => /\ req[r].success
       /\ req[r].status = 200
       /\ req[r].invitation.id = req[q].invitation.id
       /\ req[r].invitation.token = req[q].invitation.token

\* C7: a token passed to the acceptance flow by a signed-in user whose email matches,
\* before expiry, who is not yet a member, ends in success with the membership row
\* (invitation workspace, user, invitation role) present and accepted_at set.
C7_RoundTrip ==
  \A p \in Pages :
    (/\ page[p].pc = "done"
     /\ page[p].invitation.id # 0
     /\ page[p].message \notin {AlreadyMember, ErrorMessage(UNAVAILABLE)})
    => /\ page[p].status = "success"
       /\ has_workspace_role(workspace_members, page[p].user,
                             page[p].invitation.workspace_id, page[p].invitation.role)
       /\ \A i \in team_invitations :
            i.id = page[p].invitation.id => i.accepted_at # NoTime

\* C8: two acceptance attempts with one token never leave two membership rows for a
\* (workspace, user), and when one of them has succeeded the other ends in error.
C8_NoDoubleAcceptance ==
  /\ \A m1, m2 \in workspace_members :
       (m1.workspace_id = m2.workspace_id /\ m1.user_id = m2.user_id) => m1.id = m2.id
  /\ \A p, q \in Pages :
       (/\ p # q
        /\ page[p].token = page[q].token
        /\ page[p].status = "success"
        /\ page[q].pc = "done"
        /\ page[q].user # NoUser)
       => page[q].status = "error"

\* The first attempt succeeded and stamped the invitation; the second attempt, with
\* the same token, found nothing.
C8_Witness ==
  \E p, q \in Pages :
    /\ p # q
    /\ page[p].token = page[q].token
    /\ page[p].status = "success"
    /\ page[q].status = "error"
    /\ page[q].message = ExpiredOrUsed
    /\ \E i \in team_invitations : i.token = page[p].token /\ i.accepted_at # NoTime

\* C9: of two acceptance runs of one valid token by the same matching user that have
\* both read the invitation, exactly one reaches success and the other reaches
\* error with the message that the user is already a member.
C9_ExactlyOneSucceeds ==
  \A p, q \in Pages :
    (/\ p # q
     /\ page[p].pc = "done" /\ page[q].pc = "done"
     /\ page[p].token = page[q].token
     /\ page[p].user = page[q].user
     /\ page[p].invitation.id # 0 /\ page[q].invitation.id # 0
     /\ page[p].message # ErrorMessage(UNAVAILABLE)
     /\ page[q].message # ErrorMessage(UNAVAILABLE))
    => \/ page[p].status = "success" /\ page[q].status = "error"
          /\ page[q].message = AlreadyMember
       \/ page[q].status = "success" /\ page[p].status = "error"
          /\ page[p].message = AlreadyMember

\* C10: a lookup made when the invitation of the token has accepted_at set finds
\* nothing: the run ends at once in error (expired or already used) and has written
\* nothing.
C10_AcceptedIsNeverFound ==
  [][\A p \in Pages :
       (/\ page[p].pc = "lookup"
        /\ page'[p] # page[p]
        /\ \E i \in team_invitations : i.token = page[p].token /\ i.accepted_at # NoTime)
       => /\ page'[p].pc = "done"
          /\ page'[p].status = "error"
          /\ page'[p].message = ExpiredOrUsed
          /\ UNCHANGED tables]_vars

\* A run that started after the invitation was accepted has ended in error.
C10_Witness ==
  \E p \in Pages :
    /\ page[p].pc = "done"
    /\ page[p].status = "error"
    /\ page[p].message = ExpiredOrUsed
    /\ page[p].user = "carol"
    /\ \E i \in team_invitations : i.token = page[p].token /\ i.accepted_at # NoTime

\* C13: a failed email send never fails an invitation-creation request: a request
\* whose row was inserted or fetched and whose send did not go through is answered
\* with success, status 200 and the acceptance URL.
C13_EmailFailureNeverFails ==
  \A r \in Requests :
    (req[r].pc = "done" /\ req[r].invitation.id # 0 /\ ~ req[r].sent)
    => /\ req[r].success
       /\ req[r].status = 200
       /\ "inviteUrl" \in req[r].body

\* C14: the fallback fetch after a uniqueness conflict, answered by the data store,
\* never ends the request with an error, whatever other requests and cancellations
\* did since the failed insert.
C14_ConflictNeverSurfaced ==
  [][\A r \in Requests :
       ServeDuplicate(r, TRUE) => (req'[r].pc = "email" /\ req'[r].status # 500)]_vars

\* C18: every successful response carries the invitation, the acceptance URL and
\* emailSent, and emailSent is true exactly when a send was made and went through.
C18_ResponseShape ==
  \A r \in Requests :
    (req[r].pc = "done" /\ req[r].success)
    => /\ req[r].invitation.id # 0
       /\ req[r].body = InviteUrlBody
       /\ req[r].emailSent <=> req[r].sent

\* C19: when the insert fails for another reason than the (workspace, email)
\* conflict (the data store does not answer, the workspace does not exist), the
\* request ends with status 500 and an error body, no email is sent and the
\* invitation table is unchanged.
C19_OtherInsertFailure ==
  [][\A r \in Requests, e \in RequestEmails, w \in WorkspaceIds, role \in Roles :
       (\/ ServeInsert(r, e, w, role, FALSE)
        \/ ServeInsert(r, e, w, role, TRUE) /\ ~ WorkspaceExists(workspaces, w))
       => /\ req'[r].pc = "done"
          /\ req'[r].status = 500
          /\ req'[r].body = ErrorBody
          /\ ~ req'[r].success /\ ~ req'[r].sent
          /\ team_invitations' = team_invitations]_vars

\* A request for a workspace that does not exist was refused while another request
\* had created an invitation.
C19_Witness ==
  \E r \in Requests :
    /\ req[r].pc = "done" /\ req[r].status = 500 /\ req[r].body = ErrorBody
    /\ ~ WorkspaceExists(workspaces, req[r].workspaceId)
    /\ team_invitations # {}

\* C20: the email is sent only after the insert or the duplicate fetch has given
\* the handler its row, the send and the response leave the invitation table as it
\* is, and an invitation row only ever disappears by a cancellation on the Team page.
C20_EmailAfterInsert ==
  [][/\ \A r \in Requests :
          (\E h \in Handlers, apiKey \in BOOLEAN, sendOk \in BOOLEAN :
             ServeEmail(r, h, apiKey, sendOk))
          => /\ req[r].invitation.id # 0
             /\ team_invitations' = team_invitations
     /\ (team_invitations \ team_invitations' # {})
          => \E i \in team.invitations : handleCancelInvitation(i)]_vars

\* A request inserted its row, the send failed and the request was answered with
\* 500; the row is there.
C20_Witness ==
  \E r \in Requests :
    /\ req[r].pc = "done" /\ req[r].status = 500 /\ ~ req[r].duplicate
    /\ req[r].invitation.id # 0
    /\ req[r].invitation \in team_invitations

\* C11: an acceptance run of a caller whose email differs, ignoring case, from the
\* email of the unaccepted, unexpired invitation of its token ends at the lookup in
\* error with the message naming the invited address, and writes nothing.
C11_MismatchNamesAddress ==
  [][\A p \in Pages : \A i \in team_invitations :
       (/\ AcceptLookup(p, TRUE)
        /\ i.token = page[p].token
        /\ i.accepted_at = NoTime
        /\ ~ (i.expires_at < now)
        /\ toLowerCase(AuthEmail(page[p].user)) # toLowerCase(i.email))
       => /\ page'[p].pc = "done"
          /\ page'[p].status = "error"
          /\ page'[p].message = SentTo(i.email)
          /\ UNCHANGED tables]_vars

\* C12: an acceptance run whose lookup finds an invitation with expires_at less than
\* or equal to the current time ends in error (expired) without a membership insert.
C12_ExpiredAtBoundary ==
  [][\A p \in Pages :
       LET invitation == LookupInvitation(workspace_members, team_invitations,
                                          page[p].user, page[p].token)
       IN (AcceptLookup(p, TRUE) /\ invitation.id # 0 /\ invitation.expires_at <= now)
          => /\ page'[p].pc = "done"
             /\ page'[p].status = "error"
             /\ page'[p].message = Expired
             /\ UNCHANGED tables]_vars

\* C15: the invitation a creation call returns with success on the duplicate path
\* is an unaccepted one: its accepted_at is null.
C15_ResendOnlyUnaccepted ==
  \A r \in Requests :
    (req[r].pc = "done" /\ req[r].success /\ req[r].duplicate)
    => req[r].invitation.accepted_at = NoTime

\* C16: the terminal states of the acceptance page are stable: once its status is
\* success or error, no step changes the status.
C16_TerminalStable ==
  [][\A p \in Pages :
       page[p].status \in {"success", "error"} => page'[p].status = page[p].status]_vars

\* C17: when the caller of a page in login_required authenticates, the page is back
\* in the loading state with the token it had.
C17_ResumeAfterSignIn ==
  [][\A p \in Pages :
       (page[p].status = "login_required" /\ page[p].user = NoUser
        /\ page'[p].user # NoUser)
       => /\ page'[p].status = "loading"
          /\ page'[p].token = page[p].token]_vars

\* C21: no step of a creation call that hits the duplicate path (the failed insert,
\* the fetch, the email and the response) changes the invitation table: the token,
\* role, expires_at and accepted_at of the existing row stay as they were, also when
\* the call names another role.
C21_DuplicateLeavesRow ==
  [][\A r \in Requests :
       (/\ req'[r] # req[r]
        /\ req'[r].pc = "duplicate" \/ req[r].pc = "duplicate" \/ req[r].duplicate)
       => team_invitations' = team_invitations]_vars

\* A call naming another role than the existing invitation was answered with
\* success on the duplicate path; the row is as it was fetched.
C21_Witness ==
  \E r \in Requests :
    /\ req[r].pc = "done" /\ req[r].success /\ req[r].duplicate
    /\ req[r].role # req[r].invitation.role
    /\ req[r].invitation \in team_invitations

\* C22: an acceptance run that ends in error has written nothing: the step that
\* sets error changes no table, and it is never the step after the membership
\* insert has succeeded.
C22_ErrorWritesNothing ==
  [][\A p \in Pages :
       (page'[p] # page[p] /\ page'[p].status = "error")
       => (UNCHANGED tables /\ page[p].pc # "stamp")]_vars

\* One run was refused as already a member, by the row another run had inserted.
C22_Witness ==
  \E p, q \in Pages :
    /\ p # q
    /\ page[p].status = "error" /\ page[p].message = AlreadyMember
    /\ page[q].status = "success"
    /\ Cardinality({m \in workspace_members : m.user_id = page[p].user}) = 1

\* C23: a page opened without a token goes to error (invalid invitation link),
\* whoever the caller is and whether or not auth has loaded, and changes no table;
\* and a run is at a data-store call (lookup, insert, stamp) only with a token and
\* a signed-in user.
C23_NoCallWithoutTokenAndUser ==
  [][\A p \in Pages :
       /\ (page[p].pc = "unmounted" /\ page'[p] # page[p] /\ page'[p].token = NoToken)
          => /\ page'[p].pc = "done"
             /\ page'[p].status = "error"
             /\ page'[p].message = InvalidLink
             /\ UNCHANGED tables
       /\ page'[p].pc \in {"lookup", "insert", "stamp"}
          => (page'[p].token # NoToken /\ page'[p].user # NoUser)]_vars

\* A page opened without a token by nobody (or before auth had loaded) is in error.
C23_Witness ==
  \E p \in Pages :
    /\ page[p].pc = "done" /\ page[p].token = NoToken /\ page[p].user = NoUser
    /\ page[p].status = "error" /\ page[p].message = InvalidLink

\* C24: a run started with a token and a signed-in user, whose data-store calls all
\* return, reaches the end with the status success or error: no path through
\* acceptInvitation ends with the status still loading.
C24_AcceptTerminates ==
  \A p \in Pages :
    (page[p].pc = "lookup")
      ~> (page[p].pc = "done" /\ page[p].status \in {"success", "error"})

\* One run has ended in success and another in error after an unexpected failure
\* of the data store.
C24_Witness ==
  \E p, q \in Pages :
    /\ page[p].pc = "done" /\ page[p].status = "success"
    /\ page[q].pc = "done" /\ page[q].status = "error"
    /\ page[q].message = ErrorMessage(UNAVAILABLE)

\* C25: when the acceptance page turns to success, the membership row exists and the
\* invitation the run used has accepted_at set.
C25_SuccessMeansAccepted ==
  [][\A p \in Pages :
       (page'[p].status = "success" /\ page[p].status # "success")
       => /\ has_workspace_role(workspace_members', page[p].user,
                                page[p].invitation.workspace_id, page[p].invitation.role)
          /\ \E i \in team_invitations' :
               i.id = page[p].invitation.id /\ i.accepted_at # NoTime]_vars

\* C26: the invitation a creation call gets hold of and returns, by its insert or by
\* the fetch of the duplicate path, is redeemable at that time: its expiry has not
\* passed.
C26_ReturnedIsRedeemable ==
  [][\A r \in Requests :
       (req[r].invitation.id = 0 /\ req'[r].invitation.id # 0)
       => ~ (req'[r].invitation.expires_at < now)]_vars

\* C26, amended: the invitation a creation call inserts expires 7 days after the
\* insert, so it is redeemable when returned; the invitation fetched on the
\* duplicate path is the existing row with the expiry it had, which the call does
\* not renew.
C26_FreshIsRedeemable ==
  [][\A r \in Requests :
       (req[r].invitation.id = 0 /\ req'[r].invitation.id # 0)
       => IF req'[r].duplicate
          THEN /\ req'[r].invitation \in team_invitations
               /\ team_invitations' = team_invitations
          ELSE /\ req'[r].invitation.expires_at = now + InviteTtlDays
               /\ req'[r].invitation.expires_at > now
               /\ req'[r].invitation \in team_invitations']_vars

\* A call on the duplicate path was answered with success and an invitation whose
\* expiry has passed.
C26_Witness ==
  \E r \in Requests :
    /\ req[r].pc = "done" /\ req[r].success /\ req[r].duplicate
    /\ req[r].invitation.expires_at < now
    /\ req[r].invitation \in team_invitations

\* C27: once an invitation has been cancelled (its row deleted), no acceptance run
\* inserts a membership row from it, also when the run had read the invitation
\* before the cancellation.
C27_CancelledIsNeverAccepted ==
  [][\A p \in Pages :
       (/\ page[p].pc = "insert"
        /\ page'[p] # page[p]
        /\ workspace_members' # workspace_members)
       => \E i \in team_invitations : i.id = page[p].invitation.id]_vars

\* C28: the role named in every invitation email that was sent equals the role of
\* the invitation row the response returns, also on the duplicate path.
C28_EmailNamesStoredRole ==
  \A r \in Requests :
    (req[r].pc = "done" /\ req[r].sent) => EmailRole(req[r]) = req[r].invitation.role

\* C29: createWorkspace returns null only when no workspace was created: a call
\* that returns null leaves the workspaces table as it was.
C29_NullMeansNothingCreated ==
  [][\A u \in Callers, s \in Slugs, fetchOk \in BOOLEAN :
       (createWorkspace(u, s, fetchOk) /\ rpc'.workspace = 0)
       => workspaces' = workspaces]_vars

\* C30: no two existing tasks of one project have the same task_number, after any
\* interleaving of task creations and deletions.
C30_TaskNumbersUnique ==
  \A a, b \in tasks :
    (a.project_id = b.project_id /\ a.task_number = b.task_number) => a.id = b.id

====
